---- MODULE Spec2Model ----
(***************************************************************************)
(* Federated averaging as driven by src/Mnist/base.py: the driving loop of *)
(* __main__, one round of next_fn (broadcast, local training of every      *)
(* client, federated mean, global update) and the evaluation between two   *)
(* rounds.                                                                 *)
(*                                                                         *)
(* Numbers are exact rationals <<n, d>> in lowest terms with d > 0; the    *)
(* pair <<0, 0>> stands for a non-finite float (NaN/inf).  Rounding of     *)
(* float32 arithmetic is not modelled.                                     *)
(***************************************************************************)
EXTENDS Integers, Sequences, FiniteSets, TLC

VARIABLES
    pc,                           \* position of the driver / of next_fn
    state,                        \* the driver's `state` (line 169, 173)
    loss,                         \* the driver's `loss` list (line 170, 175)
    r,                            \* iterations of `for r in range(ROUNDS)` started so far
    clients_datasets,             \* line 21: one dataset (sequence of batches) per client
    EPOCHS,                       \* line 12
    ROUNDS,                       \* line 13
    LEARNING_RATE,                \* line 15
    model_weights_for_clients,    \* line 147: the broadcast value, one copy per client
    cpc,                          \* position of each client's local_train invocation
    model,                        \* trainable variables of each model instance created by local_train
    epoch,                        \* per client: value of `epoch` in train (line 101)
    batch,                        \* per client: index of the next batch of the dataset (line 102)
    local_model_weights,          \* line 149: result of each client's local_train
    aggregated_model_weights,     \* line 155
    global_model_weights_updated, \* line 157
    steps,                        \* history: apply_gradients calls of each client in this round
    calls,                        \* history: calls of next that returned
    seen                          \* history: <<argument, result>> of every call of next that returned

vars == <<pc, state, loss, r, clients_datasets, EPOCHS, ROUNDS, LEARNING_RATE,
          model_weights_for_clients, cpc, model, epoch, batch,
          local_model_weights, aggregated_model_weights,
          global_model_weights_updated, steps, calls, seen>>

config == <<clients_datasets, EPOCHS, ROUNDS, LEARNING_RATE>>
clientVars == <<cpc, model, epoch, batch, local_model_weights, steps>>

----------------------------------------------------------------------------
(* Bounds of the model *)

MaxClients == 2        \* at most this many clients
MaxTotalBatches == 2   \* at most this many batches over all clients' datasets
MaxEpochs == 2
MaxRounds == 2
DenBound == 100000     \* largest denominator a run may produce

----------------------------------------------------------------------------
(* Exact rational arithmetic *)

NaN == <<0, 0>>

IsFinite(a) == a[2] # 0

Abs(n) == IF n < 0 THEN -n ELSE n

\* The arithmetic is written as functions: a function's arguments are
\* evaluated once, to values, before its body is.

gcd[a \in Nat, b \in Nat] == IF b = 0 THEN a ELSE gcd[b, a % b]

GCD(a, b) == gcd[a, b]

norm[n \in Int, d \in Int] ==
    IF d = 0 THEN NaN
    ELSE LET s == IF d < 0 THEN -1 ELSE 1
             g == gcd[Abs(n), Abs(d)]
         IN  <<(s * n) \div g, (s * d) \div g>>

Norm(n, d) == norm[n, d]

Rat(n) == <<n, 1>>

radd[a \in Int \X Int, b \in Int \X Int] ==
    IF ~IsFinite(a) \/ ~IsFinite(b) THEN NaN
    ELSE LET g == gcd[a[2], b[2]]
             l == a[2] * (b[2] \div g)
         IN  norm[a[1] * (l \div a[2]) + b[1] * (l \div b[2]), l]

RAdd(a, b) == radd[a, b]

RNeg(a) == <<-a[1], a[2]>>

RSub(a, b) == radd[a, RNeg(b)]

rmul[a \in Int \X Int, b \in Int \X Int] ==
    IF ~IsFinite(a) \/ ~IsFinite(b) THEN NaN
    ELSE norm[a[1] * b[1], a[2] * b[2]]

RMul(a, b) == rmul[a, b]

rdiv[a \in Int \X Int, n \in Int] ==
    IF ~IsFinite(a) THEN NaN ELSE norm[a[1], a[2] * n]

RDivInt_plusOne(a, n) == rdiv[a, n + 1]

\* a / n for a count n; a division by zero gives a non-finite value
RDivInt(a, n) == rdiv[a, n]


RECURSIVE PowCap(_, _)
\* b^e, no longer multiplied once it exceeds DenBound
PowCap(b, e) ==
    IF e = 0 THEN 1
    ELSE LET p == PowCap(b, e - 1) IN IF p > DenBound THEN p ELSE b * p

----------------------------------------------------------------------------
(* Parameter vectors, batches and the external training backend *)

\* number of entries of the structure model_init returns
ParamLen == 2

Indices == 1 .. ParamLen

\* the values a freshly created Keras model may hold in its trainable variables
KerasInit == {[i \in Indices |-> Rat((i + k) % 2)] : k \in 0 .. 1}

\* create_mnist_model / model_tff: fresh trainable variables
FreshModels == KerasInit

\* the batches a dataset may hold: a batch decides the gradient of the loss
BatchSet == {<<"const", 2>>, <<"quad", 1>>, <<"nan", 0>>}

\* tape.gradient(outputs.loss, local_model_weights) for one batch
GradientFn(w, b) ==
    [i \in Indices |->
        CASE b[1] = "const" -> Rat(b[2])
          [] b[1] = "quad"  -> RSub(w[i], Rat(b[2]))
          [] OTHER          -> NaN]

ApplyGradients_ascent(w, grads, lr) ==
    [i \in Indices |-> RAdd(w[i], RMul(lr, grads[i]))]

\* optimizer.apply_gradients with tf.optimizers.SGD(learning_rate)
ApplyGradients(w, grads, lr) ==
    [i \in Indices |-> RSub(w[i], RMul(lr, grads[i]))]

AssignVariables_keepLast(variables, values) ==
    [i \in Indices |-> IF i = ParamLen THEN variables[i] ELSE values[i]]

\* tf.nest.map_structure(lambda x, y: x.assign(y), variables, values)
AssignVariables(variables, values) ==
    [i \in Indices |-> values[i]]

\* model.evaluate(dataset): the loss of the given weights on the test set
Loss(w) == RAdd(w[1], w[ParamLen])

RECURSIVE SumAt(_, _, _)
\* sum of entry i over the first n vectors of vs
SumAt(vs, i, n) == IF n = 0 THEN Rat(0) ELSE RAdd(SumAt(vs, i, n - 1), vs[n][i])

FederatedMeanOf_dropFirst(vs) ==
    [i \in Indices |-> RDivInt(RSub(SumAt(vs, i, Len(vs)), vs[1][i]), Len(vs))]

FederatedMeanOf_sum(vs) == [i \in Indices |-> SumAt(vs, i, Len(vs))]

FederatedMeanOf_first(vs) == [i \in Indices |-> vs[1][i]]

\* tff.federated_mean over the members of a CLIENTS-placed value
FederatedMeanOf(vs) ==
    [i \in Indices |-> RDivInt(SumAt(vs, i, Len(vs)), Len(vs))]

----------------------------------------------------------------------------
(* Clients *)

CLIENTS_NUM == Len(clients_datasets)

Clients == 1 .. CLIENTS_NUM

ModelOf_shared(c) == 1

\* the model instance a client's local_train invocation trains: its own
ModelOf(c) == c

SeqsUpTo(S, n) == UNION {[1 .. k -> S] : k \in 0 .. n}

RECURSIVE TotalLen(_, _)
TotalLen(ds, n) == IF n = 0 THEN 0 ELSE TotalLen(ds, n - 1) + Len(ds[n])

RECURSIVE MaxLen(_, _)
MaxLen(ds, n) ==
    IF n = 0 THEN 0
    ELSE LET m == MaxLen(ds, n - 1) IN IF Len(ds[n]) > m THEN Len(ds[n]) ELSE m

\* clients_datasets: one dataset per client, for at least one client
DatasetChoices ==
    {ds \in UNION {[1 .. n -> SeqsUpTo(BatchSet, MaxTotalBatches)] : n \in 1 .. MaxClients} :
        TotalLen(ds, Len(ds)) <= MaxTotalBatches}

\* learning rates: 0.1 and the program's 0.02
LearningRates == {<<1, 10>>, <<1, 50>>}

\* no run of this configuration produces a denominator above DenBound
DenominatorsFit(ds, e, rounds, lr) ==
    PowCap(lr[2], rounds * e * MaxLen(ds, Len(ds)))
        * PowCap(IF Len(ds) = 0 THEN 1 ELSE Len(ds), rounds) <= DenBound

AllClientsDone_tooMany ==
    Cardinality({c \in Clients : cpc[c] = "done"}) > CLIENTS_NUM

AllClientsDone_some == \E c \in Clients : cpc[c] = "done"

\* every member of the CLIENTS-placed value local_model_weights exists
AllClientsDone == \A c \in Clients : cpc[c] = "done"

\* the members of local_model_weights produced so far, in client order
CollectedResults == SelectSeq(local_model_weights, LAMBDA v : v # <<>>)

TrainingOver_oneMore(c) == epoch[c] > EPOCHS \/ Len(clients_datasets[c]) = 0

\* `for epoch in range(EPOCHS): for batch in dataset` has no iteration left
TrainingOver(c) == epoch[c] >= EPOCHS \/ Len(clients_datasets[c]) = 0

RECURSIVE TrainEpoch(_, _, _, _)
\* one pass of `for batch in dataset` over the first n batches, started from w
TrainEpoch(w, ds, n, lr) ==
    IF n = 0 THEN w
    ELSE LET v == TrainEpoch(w, ds, n - 1, lr)
         IN  ApplyGradients(v, GradientFn(v, ds[n]), lr)

RECURSIVE TrainAlone(_, _, _, _)
\* train run to its end without any other invocation: e epochs over ds from w
TrainAlone(w, ds, e, lr) ==
    IF e = 0 THEN w
    ELSE TrainEpoch(TrainAlone(w, ds, e - 1, lr), ds, Len(ds), lr)

\* the positions inside one call of next_fn
RoundPhases == {"training", "aggregating", "update", "return"}

----------------------------------------------------------------------------
(* The program *)

\* the state when __main__ starts, the datasets being one of `choices`
InitWith(choices) ==
    /\ pc = "main"
    /\ state = [weights |-> <<>>]
    /\ loss = <<>>
    /\ r = 0
    /\ clients_datasets \in choices
    /\ EPOCHS \in 0 .. MaxEpochs
    /\ ROUNDS \in 0 .. MaxRounds
    /\ LEARNING_RATE \in LearningRates
    /\ DenominatorsFit(clients_datasets, EPOCHS, ROUNDS, LEARNING_RATE)
    /\ model_weights_for_clients = <<>>
    /\ cpc = <<>>
    /\ model = <<>>
    /\ epoch = <<>>
    /\ batch = <<>>
    /\ local_model_weights = <<>>
    /\ aggregated_model_weights = <<>>
    /\ global_model_weights_updated = <<>>
    /\ steps = <<>>
    /\ calls = 0
    /\ seen = {}

Init == InitWith(DatasetChoices)

\* as Init, and next may also be given no client dataset at all
InitAnyClients == InitWith(DatasetChoices \cup {<<>>})

\* state = federated_algorithm.initialize(); loss = []
Initialize ==
    /\ pc = "main"
    /\ \E w \in KerasInit : state' = [weights |-> w]
    /\ loss' = <<>>
    /\ r' = 0
    /\ pc' = "loop"
    /\ UNCHANGED <<config, model_weights_for_clients, clientVars,
                   aggregated_model_weights, global_model_weights_updated, calls, seen>>

\* for r in range(ROUNDS): ... federated_algorithm.next(state, clients_datasets) is called
LoopNext ==
    /\ pc = "loop"
    /\ r < ROUNDS
    /\ pc' = "broadcast"
    /\ UNCHANGED <<state, loss, r, config, model_weights_for_clients, clientVars,
                   aggregated_model_weights, global_model_weights_updated, calls, seen>>

LoopExit_early ==
    /\ pc = "loop"
    /\ r + 1 >= ROUNDS
    /\ pc' = "done"
    /\ UNCHANGED <<state, loss, r, config, model_weights_for_clients, clientVars,
                   aggregated_model_weights, global_model_weights_updated, calls, seen>>

\* range(ROUNDS) is exhausted: the loop ends and the losses are plotted
LoopExit ==
    /\ pc = "loop"
    /\ r >= ROUNDS
    /\ pc' = "done"
    /\ UNCHANGED <<state, loss, r, config, model_weights_for_clients, clientVars,
                   aggregated_model_weights, global_model_weights_updated, calls, seen>>

\* model_weights_for_clients = tff.federated_broadcast(global_model_weights)
FederatedBroadcast ==
    /\ pc = "broadcast"
    /\ model_weights_for_clients' = [c \in Clients |-> state.weights]
    /\ cpc' = [c \in Clients |-> "start"]
    /\ model' = [c \in Clients |-> <<>>]
    /\ epoch' = [c \in Clients |-> 0]
    /\ batch' = [c \in Clients |-> 0]
    /\ local_model_weights' = [c \in Clients |-> <<>>]
    /\ steps' = [c \in Clients |-> 0]
    /\ pc' = "training"
    /\ UNCHANGED <<state, loss, r, config, aggregated_model_weights,
                   global_model_weights_updated, calls, seen>>

LocalTrainBegin_noAssign(c) ==
    /\ pc = "training"
    /\ cpc[c] = "start"
    /\ \E fresh \in FreshModels : model' = [model EXCEPT ![ModelOf(c)] = fresh]
    /\ epoch' = [epoch EXCEPT ![c] = 0]
    /\ batch' = [batch EXCEPT ![c] = 1]
    /\ cpc' = [cpc EXCEPT ![c] = "train"]
    /\ UNCHANGED <<pc, state, loss, r, config, model_weights_for_clients,
                   local_model_weights, aggregated_model_weights,
                   global_model_weights_updated, steps, calls, seen>>

\* local_train up to the first batch: a fresh model and optimizer, then every
\* trainable variable is assigned the broadcast weights
LocalTrainBegin(c) ==
    /\ pc = "training"
    /\ cpc[c] = "start"
    /\ \E fresh \in FreshModels :
          model' = [model EXCEPT ![ModelOf(c)] =
                        AssignVariables(fresh, model_weights_for_clients[c])]
    /\ epoch' = [epoch EXCEPT ![c] = 0]
    /\ batch' = [batch EXCEPT ![c] = 1]
    /\ cpc' = [cpc EXCEPT ![c] = "train"]
    /\ UNCHANGED <<pc, state, loss, r, config, model_weights_for_clients,
                   local_model_weights, aggregated_model_weights,
                   global_model_weights_updated, steps, calls, seen>>

SGDStep_aliased(c) ==
    /\ pc = "training"
    /\ cpc[c] = "train"
    /\ ~TrainingOver(c)
    /\ LET w == model[ModelOf(c)]
           grads == GradientFn(w, clients_datasets[c][batch[c]])
           w2 == ApplyGradients(w, grads, LEARNING_RATE)
       IN  /\ model' = [model EXCEPT ![ModelOf(c)] = w2]
           /\ model_weights_for_clients' = [model_weights_for_clients EXCEPT ![c] = w2]
    /\ IF batch[c] = Len(clients_datasets[c])
       THEN epoch' = [epoch EXCEPT ![c] = @ + 1] /\ batch' = [batch EXCEPT ![c] = 1]
       ELSE epoch' = epoch /\ batch' = [batch EXCEPT ![c] = @ + 1]
    /\ steps' = [steps EXCEPT ![c] = @ + 1]
    /\ UNCHANGED <<pc, state, loss, r, config, cpc,
                   local_model_weights, aggregated_model_weights,
                   global_model_weights_updated, calls, seen>>

\* one iteration of `for batch in dataset` inside `for epoch in range(EPOCHS)`:
\* forward pass, gradient, optimizer.apply_gradients
SGDStep(c) ==
    /\ pc = "training"
    /\ cpc[c] = "train"
    /\ ~TrainingOver(c)
    /\ LET w == model[ModelOf(c)]
           grads == GradientFn(w, clients_datasets[c][batch[c]])
       IN  model' = [model EXCEPT ![ModelOf(c)] = ApplyGradients(w, grads, LEARNING_RATE)]
    /\ IF batch[c] = Len(clients_datasets[c])
       THEN epoch' = [epoch EXCEPT ![c] = @ + 1] /\ batch' = [batch EXCEPT ![c] = 1]
       ELSE epoch' = epoch /\ batch' = [batch EXCEPT ![c] = @ + 1]
    /\ steps' = [steps EXCEPT ![c] = @ + 1]
    /\ UNCHANGED <<pc, state, loss, r, config, model_weights_for_clients, cpc,
                   local_model_weights, aggregated_model_weights,
                   global_model_weights_updated, calls, seen>>

LocalTrainReturn_folding(c) ==
    /\ pc = "training"
    /\ cpc[c] = "train"
    /\ TrainingOver(c)
    /\ local_model_weights' = [local_model_weights EXCEPT ![c] = model[ModelOf(c)]]
    /\ state' = [weights |-> model[ModelOf(c)]]
    /\ cpc' = [cpc EXCEPT ![c] = "done"]
    /\ UNCHANGED <<pc, loss, r, config, model_weights_for_clients, model,
                   epoch, batch, aggregated_model_weights,
                   global_model_weights_updated, steps, calls, seen>>

\* return local_model_weights
LocalTrainReturn(c) ==
    /\ pc = "training"
    /\ cpc[c] = "train"
    /\ TrainingOver(c)
    /\ local_model_weights' = [local_model_weights EXCEPT ![c] = model[ModelOf(c)]]
    /\ cpc' = [cpc EXCEPT ![c] = "done"]
    /\ UNCHANGED <<pc, state, loss, r, config, model_weights_for_clients, model,
                   epoch, batch, aggregated_model_weights,
                   global_model_weights_updated, steps, calls, seen>>

\* an exception raised inside a client's training (model.forward_pass, the
\* dataset iterator) leaves next and, uncaught, the driving loop
ClientRaise(c) ==
    /\ pc = "training"
    /\ cpc[c] = "train"
    /\ pc' = "failed"
    /\ UNCHANGED <<state, loss, r, config, model_weights_for_clients, clientVars,
                   aggregated_model_weights, global_model_weights_updated, calls, seen>>

Barrier_skipMean ==
    /\ pc = "training"
    /\ AllClientsDone
    /\ pc' = "update"
    /\ UNCHANGED <<state, loss, r, config, model_weights_for_clients, clientVars,
                   aggregated_model_weights, global_model_weights_updated, calls, seen>>

\* the argument of federated_mean is the whole CLIENTS-placed value
Barrier ==
    /\ pc = "training"
    /\ AllClientsDone
    /\ pc' = "aggregating"
    /\ UNCHANGED <<state, loss, r, config, model_weights_for_clients, clientVars,
                   aggregated_model_weights, global_model_weights_updated, calls, seen>>

\* aggregated_model_weights = tff.federated_mean(local_model_weights)
FederatedMean ==
    /\ pc = "aggregating"
    /\ aggregated_model_weights' = FederatedMeanOf(CollectedResults)
    /\ pc' = "update"
    /\ UNCHANGED <<state, loss, r, config, model_weights_for_clients, clientVars,
                   global_model_weights_updated, calls, seen>>

\* federated_mean over no member: the count it divides by is zero, and the
\* runtime may raise instead of returning the non-finite quotient
FederatedMeanRaise ==
    /\ pc = "aggregating"
    /\ CLIENTS_NUM = 0
    /\ pc' = "failed"
    /\ UNCHANGED <<state, loss, r, config, model_weights_for_clients, clientVars,
                   aggregated_model_weights, global_model_weights_updated, calls, seen>>

\* global_update: a fresh model whose variables are assigned the aggregate
GlobalUpdate ==
    /\ pc = "update"
    /\ \E fresh \in FreshModels :
          global_model_weights_updated' = AssignVariables(fresh, aggregated_model_weights)
    /\ pc' = "return"
    /\ UNCHANGED <<state, loss, r, config, model_weights_for_clients, clientVars,
                   aggregated_model_weights, calls, seen>>

\* return global_model_weights_updated; state = federated_algorithm.next(...)
NextReturn ==
    /\ pc = "return"
    /\ state' = [weights |-> global_model_weights_updated]
    /\ calls' = calls + 1
    /\ seen' = seen \cup {<<state.weights, global_model_weights_updated>>}
    /\ pc' = "evaluate"
    /\ UNCHANGED <<loss, r, config, model_weights_for_clients, clientVars,
                   aggregated_model_weights, global_model_weights_updated>>

Evaluate_skipRound ==
    /\ pc = "evaluate"
    /\ loss' = Append(loss, Loss(state.weights))
    /\ r' = r + 2
    /\ pc' = "loop"
    /\ UNCHANGED <<state, config, model_weights_for_clients, clientVars,
                   aggregated_model_weights, global_model_weights_updated, calls, seen>>

Evaluate_mutating ==
    /\ pc = "evaluate"
    /\ loss' = Append(loss, Loss(state.weights))
    /\ \E fresh \in FreshModels : state' = [weights |-> fresh]
    /\ r' = r + 1
    /\ pc' = "loop"
    /\ UNCHANGED <<config, model_weights_for_clients, clientVars,
                   aggregated_model_weights, global_model_weights_updated, calls, seen>>

\* loss_val, metrics = evaluate(state, dataset_test); loss.append(loss_val)
Evaluate ==
    /\ pc = "evaluate"
    /\ loss' = Append(loss, Loss(state.weights))
    /\ r' = r + 1
    /\ pc' = "loop"
    /\ UNCHANGED <<state, config, model_weights_for_clients, clientVars,
                   aggregated_model_weights, global_model_weights_updated, calls, seen>>

Next ==
    \/ Initialize
    \/ LoopNext
    \/ LoopExit
    \/ FederatedBroadcast
    \/ \E c \in Clients : LocalTrainBegin(c)
    \/ \E c \in Clients : SGDStep(c)
    \/ \E c \in Clients : LocalTrainReturn(c)
    \/ \E c \in Clients : ClientRaise(c)
    \/ Barrier
    \/ FederatedMean
    \/ GlobalUpdate
    \/ NextReturn
    \/ Evaluate

Spec == Init /\ [][Next]_vars

\* a step of one client's local_train invocation
ClientStep(c) ==
    /\ c \in Clients
    /\ (LocalTrainBegin(c) \/ SGDStep(c) \/ LocalTrainReturn(c))

\* a step of next_fn outside the clients' training
ServerStep ==
    FederatedBroadcast \/ Barrier \/ FederatedMean \/ GlobalUpdate \/ NextReturn

\* the runtime keeps running every started invocation: no client's training
\* and no step of next_fn that can be taken is put off for ever
SpecFair ==
    /\ Init
    /\ [][Next]_vars
    /\ WF_vars(ServerStep)
    /\ \A c \in 1 .. MaxClients : WF_vars(ClientStep(c))

\* a step of __main__ itself: initialize, the loop's test, the evaluation
DriverStep ==
    Initialize \/ LoopNext \/ LoopExit \/ Evaluate

\* as SpecFair, and the main program, too, keeps running
SpecMain ==
    /\ Init
    /\ [][Next]_vars
    /\ WF_vars(DriverStep)
    /\ WF_vars(ServerStep)
    /\ \A c \in 1 .. MaxClients : WF_vars(ClientStep(c))

NextAnyClients == Next \/ FederatedMeanRaise

\* the program when the list of client datasets may be empty
SpecAnyClients == InitAnyClients /\ [][NextAnyClients]_vars

----------------------------------------------------------------------------
(* Properties *)

\* C1: the aggregate of a round is, for every parameter index on its own, the
\* unweighted arithmetic mean of the clients' local results: CLIENTS_NUM times
\* the aggregate is their sum; local results [1,1] and [3,3] aggregate to [2,2].
C1_UnweightedMean ==
    /\ pc \in {"update", "return"} =>
          \A i \in Indices :
              RMul(Rat(CLIENTS_NUM), aggregated_model_weights[i])
                  = SumAt(local_model_weights, i, CLIENTS_NUM)
    /\ FederatedMeanOf(<<[i \in Indices |-> Rat(1)], [i \in Indices |-> Rat(3)]>>)
          = [i \in Indices |-> Rat(2)]

C1_Witness ==
    /\ pc = "update"
    /\ CLIENTS_NUM = 2
    /\ local_model_weights[1] # local_model_weights[2]
    /\ \A i \in Indices : IsFinite(aggregated_model_weights[i])
    /\ aggregated_model_weights[1] # aggregated_model_weights[2]

\* C2: aggregation starts only after every client has produced its local result
\* of the round, and the aggregate is the mean over exactly those CLIENTS_NUM
\* results.
C2_Barrier ==
    pc \in {"aggregating", "update", "return"} =>
        /\ \A c \in Clients : cpc[c] = "done" /\ local_model_weights[c] # <<>>
        /\ Len(CollectedResults) = CLIENTS_NUM
        /\ pc # "aggregating" =>
              aggregated_model_weights = FederatedMeanOf(local_model_weights)

C2_Witness ==
    /\ pc = "aggregating"
    /\ CLIENTS_NUM = 2
    /\ \A c \in Clients : steps[c] > 0

\* C3: the driver's state changes only when initialize or a call of next
\* returns, and then to the aggregate of all clients' results; a step into
\* failure leaves it as it was.
C3_Atomic ==
    [][/\ (state' # state) =>
             \/ pc = "main"
             \/ /\ pc = "return"
                /\ \A c \in Clients : cpc[c] = "done"
                /\ state'.weights = FederatedMeanOf(local_model_weights)
       /\ (pc' = "failed") => (state' = state)]_vars

C3_Witness ==
    /\ pc = "failed"
    /\ calls = 1
    /\ \E c \in Clients : cpc[c] = "done" /\ local_model_weights[c] # state.weights
    /\ \E p \in seen : state.weights = p[2]

C5_Isolation ==
    pc \in RoundPhases =>
        \A c \in Clients :
            cpc[c] = "done" =>
                local_model_weights[c]
                    = TrainAlone(state.weights, clients_datasets[c], EPOCHS, LEARNING_RATE)

C5_Witness ==
    /\ pc = "training"
    /\ \E c, d \in Clients :
          /\ cpc[c] = "done" /\ steps[c] > 1
          /\ cpc[d] = "train" /\ steps[d] = 1 /\ ~TrainingOver(d)
          /\ local_model_weights[c] # state.weights

\* C6: local training never changes the broadcast weights it was given: during
\* the whole round every client's copy equals the global weights of the round.
C6_GlobalWeightsUntouched ==
    pc \in RoundPhases =>
        \A c \in Clients : model_weights_for_clients[c] = state.weights

C6_Witness ==
    /\ pc = "training"
    /\ \E c \in Clients :
          /\ cpc[c] = "done" /\ steps[c] = 2
          /\ local_model_weights[c] # model_weights_for_clients[c]

\* C7: with EPOCHS = 0 every client returns the broadcast weights, every round
\* returns its own argument, and the global weights stay the initial ones.
C7_ZeroEpochsIdentity ==
    EPOCHS = 0 =>
        /\ pc \in RoundPhases =>
              \A c \in Clients :
                  cpc[c] = "done" => local_model_weights[c] = model_weights_for_clients[c]
        /\ \A p \in seen : p[2] = p[1] /\ state.weights = p[1]
        /\ Cardinality(seen) <= 1

C7_Witness ==
    /\ EPOCHS = 0
    /\ calls = 2
    /\ CLIENTS_NUM = 2
    /\ \E c \in Clients : Len(clients_datasets[c]) > 0

RECURSIVE SumConst(_, _)
\* the sum of the gradients of the first n batches of a dataset of "const" batches
SumConst(ds, n) == IF n = 0 THEN 0 ELSE SumConst(ds, n - 1) + ds[n][2]

AllConst(ds) == \A k \in 1 .. Len(ds) : ds[k][1] = "const"

\* C8: local training applies one plain SGD step per batch, batch after batch
\* and epoch after epoch, EPOCHS * (number of batches) steps in all, each
\* taking LEARNING_RATE times the gradient off every weight; weight 0, one
\* batch of gradient 2, rate 0.1 and one epoch give -0.2, which a round of one
\* client aggregates to -0.2.
C8_PlainSGD ==
    pc \in RoundPhases =>
        /\ \A c \in Clients :
              LET ds == clients_datasets[c] IN
              /\ cpc[c] = "train" /\ ~TrainingOver(c) =>
                    steps[c] = epoch[c] * Len(ds) + batch[c] - 1
              /\ cpc[c] = "done" =>
                    /\ steps[c] = EPOCHS * Len(ds)
                    /\ AllConst(ds) =>
                          \A i \in Indices :
                              local_model_weights[c][i]
                                  = RSub(state.weights[i],
                                         RMul(LEARNING_RATE,
                                              Rat(EPOCHS * SumConst(ds, Len(ds)))))
        /\ (/\ clients_datasets = << << <<"const", 2>> >> >>
            /\ LEARNING_RATE = <<1, 10>>
            /\ EPOCHS = 1
            /\ state.weights[1] = Rat(0)) =>
              /\ cpc[1] = "done" => local_model_weights[1][1] = <<-1, 5>>
              /\ pc \in {"update", "return"} => aggregated_model_weights[1] = <<-1, 5>>
              /\ pc = "return" => global_model_weights_updated[1] = <<-1, 5>>

C8_Witness ==
    /\ pc = "return"
    /\ clients_datasets = << << <<"const", 2>> >> >>
    /\ LEARNING_RATE = <<1, 10>>
    /\ EPOCHS = 1
    /\ state.weights[1] = Rat(0)
    /\ global_model_weights_updated[1] = <<-1, 5>>

\* C9: with no client dataset a call of next fails before any aggregation is
\* run, returns nothing and leaves the state as it was.
C9_EmptyFailsAtOnce ==
    CLIENTS_NUM = 0 =>
        /\ pc \notin {"aggregating", "update", "return", "evaluate"}
        /\ calls = 0

Perms(n) == {f \in [1 .. n -> 1 .. n] : \A j, k \in 1 .. n : j # k => f[j] # f[k]}

\* C11: the aggregate does not depend on the order of the local results: the
\* mean over every reordering of the clients' results is the aggregate of the
\* round, so the order in which the clients finish does not matter.
C11_OrderIndependent ==
    pc \in {"update", "return"} =>
        \A f \in Perms(CLIENTS_NUM) :
            FederatedMeanOf([k \in Clients |-> local_model_weights[f[k]]])
                = aggregated_model_weights

C11_Witness ==
    /\ pc = "update"
    /\ CLIENTS_NUM = 2
    /\ local_model_weights[1] # local_model_weights[2]
    /\ \A c \in Clients : steps[c] > 0
    /\ \A i \in Indices : IsFinite(aggregated_model_weights[i])

RECURSIVE WeightSum(_, _)
\* the sum of the first n weights
WeightSum(ws, n) == IF n = 0 THEN 0 ELSE WeightSum(ws, n - 1) + ws[n]

RECURSIVE WeightedSumAt(_, _, _, _)
\* the sum over the first n vectors of weight times entry i
WeightedSumAt(vs, ws, i, n) ==
    IF n = 0 THEN Rat(0)
    ELSE RAdd(WeightedSumAt(vs, ws, i, n - 1), RMul(Rat(ws[n]), vs[n][i]))

\* the weight sequences aligned with n results that sum to a positive value
WeightChoices(n) == {ws \in [1 .. n -> 0 .. 2] : WeightSum(ws, n) > 0}

UniformWeights(n) == {ws \in WeightChoices(n) : \A j \in 1 .. n : ws[j] = ws[1]}

C13_FailFastOnNonFinite ==
    /\ pc # "main" => \A i \in Indices : IsFinite(state.weights[i])
    /\ pc \in RoundPhases =>
          \A c \in Clients :
              cpc[c] \in {"train", "done"} =>
                  \A i \in Indices : IsFinite(model[ModelOf(c)][i])

\* C14: the aggregate of N identical local results is that result: whenever
\* all clients of a round return the same weights the aggregate equals them,
\* and the mean of n copies of any initial vector is the vector.
C14_MeanOfIdentical ==
    /\ pc \in {"update", "return"} =>
          ((\A c \in Clients : local_model_weights[c] = local_model_weights[1])
              => aggregated_model_weights = local_model_weights[1])
    /\ pc = "main" =>
          \A n \in 1 .. MaxClients + 1 : \A v \in KerasInit :
              FederatedMeanOf([k \in 1 .. n |-> v]) = v

C14_Witness ==
    /\ pc = "update"
    /\ CLIENTS_NUM = 2
    /\ local_model_weights[1] = local_model_weights[2]
    /\ \A c \in Clients : steps[c] > 0
    /\ local_model_weights[1] # state.weights
    /\ \A i \in Indices : IsFinite(aggregated_model_weights[i])

\* C16: rounds follow one another: the state a round is given (and broadcasts)
\* is the state the round before it returned, the first round's being the one
\* initialize returned; the evaluation between two rounds leaves it as it is,
\* and a round starts only after every earlier round has returned and been
\* evaluated.
C16_StrictlySequential ==
    /\ (calls >= 1 /\ pc \in {"evaluate", "loop", "done", "broadcast",
                              "training", "aggregating", "update"}) =>
          state.weights = global_model_weights_updated
    /\ (calls = 0 /\ pc # "main") => state.weights \in KerasInit
    /\ pc \in RoundPhases =>
          \A c \in Clients :
              model_weights_for_clients[c]
                  = IF pc = "return" \/ calls = 0 THEN state.weights
                    ELSE global_model_weights_updated
    /\ pc \in RoundPhases \cup {"broadcast"} => (Len(loss) = calls /\ r = calls)

C16_Witness ==
    /\ pc = "training"
    /\ calls = 1
    /\ Len(loss) = 1
    /\ \E p \in seen : p[1] # p[2] /\ \A c \in Clients : model_weights_for_clients[c] = p[2]
    /\ \E c \in Clients : steps[c] > 0

\* the protocol phase of a position: INIT (no round under way), ROUND_ACTIVE
\* (broadcast issued, clients training), AGGREGATING (all results collected)
Phase(p) ==
    CASE p \in {"loop", "broadcast", "evaluate", "done"} -> "INIT"
      [] p = "training" -> "ROUND_ACTIVE"
      [] p \in {"aggregating", "update", "return"} -> "AGGREGATING"
      [] OTHER -> p

\* the moves from one position to another that keep the order of a round
OrderedMoves ==
    {<<"main", "loop">>, <<"loop", "broadcast">>, <<"loop", "done">>,
     <<"broadcast", "training">>, <<"training", "aggregating">>,
     <<"training", "failed">>, <<"aggregating", "update">>,
     <<"update", "return">>, <<"return", "evaluate">>, <<"evaluate", "loop">>}

\* C17: a round goes INIT -> ROUND_ACTIVE -> AGGREGATING -> INIT without
\* skipping or reordering a step: clients train only after the broadcast, the
\* aggregate is computed only once all results are collected, the global
\* update only after the aggregate; and a completed round is no terminal
\* state: its result has the shape of the initial state and, as long as the
\* driver has rounds left, the next call is enabled.
C17_PhaseOrder ==
    /\ [](pc = "loop" =>
            /\ DOMAIN state.weights = Indices
            /\ r < ROUNDS => ENABLED LoopNext)
    /\ [][/\ pc' # pc => <<pc, pc'>> \in OrderedMoves
          /\ Phase(pc') # Phase(pc) =>
                <<Phase(pc), Phase(pc')>> \in
                    {<<"main", "INIT">>, <<"INIT", "ROUND_ACTIVE">>,
                     <<"ROUND_ACTIVE", "AGGREGATING">>, <<"AGGREGATING", "INIT">>,
                     <<"ROUND_ACTIVE", "failed">>}
          /\ (pc # "broadcast" /\ (cpc' # cpc \/ model' # model)) => pc = "training"
          /\ pc' = "training" =>
                \A c \in Clients : model_weights_for_clients'[c] = state.weights
          /\ aggregated_model_weights' # aggregated_model_weights =>
                (pc = "aggregating" /\ AllClientsDone)
          /\ global_model_weights_updated' # global_model_weights_updated =>
                /\ pc = "update"
                /\ aggregated_model_weights = FederatedMeanOf(local_model_weights)
                /\ global_model_weights_updated' = aggregated_model_weights]_vars

C17_Witness ==
    /\ pc = "loop"
    /\ calls = 1
    /\ r < ROUNDS
    /\ \E p \in seen : p[1] # p[2] /\ state.weights = p[2]

\* C18: under fair scheduling every call of next that was started ends: it
\* returns the new state or it fails; it does not stay in training or in
\* aggregation for ever.
C18_RoundEnds ==
    (pc = "broadcast") ~> (pc \in {"evaluate", "failed"})

C18_Witness ==
    /\ pc = "evaluate"
    /\ CLIENTS_NUM = 2
    /\ \A c \in Clients : steps[c] > 1
    /\ \E p \in seen : p[1] # p[2] /\ state.weights = p[2]

\* C19: in every round a client's model holds exactly the round's global
\* weights when its first gradient step is due, whatever the fresh model's
\* initial values and whatever the client held in an earlier round; and the
\* weights global_update returns, which become the new state, are exactly the
\* aggregated mean.
C19_StartsFromGlobal ==
    /\ pc = "training" =>
          \A c \in Clients :
              cpc[c] = "train" /\ steps[c] = 0 => model[ModelOf(c)] = state.weights
    /\ pc = "return" => global_model_weights_updated = aggregated_model_weights
    /\ pc = "evaluate" => state.weights = aggregated_model_weights

C19_Witness ==
    /\ pc = "training"
    /\ calls = 1
    /\ \E c \in Clients :
          /\ cpc[c] = "train" /\ steps[c] = 0 /\ ~TrainingOver(c)
          /\ model[ModelOf(c)] \notin FreshModels

\* C20: the driving loop ends, and when it ends without an exception next has
\* been called exactly ROUNDS times (never when ROUNDS = 0) and the loss list
\* has exactly ROUNDS entries; every call of next is followed by one
\* evaluation, which appends the loss of the state that call returned, and no
\* entry is ever changed or appended otherwise.
C20_ExactlyRounds ==
    /\ [](pc = "done" => calls = ROUNDS /\ Len(loss) = ROUNDS /\ r = ROUNDS)
    /\ [](Len(loss) = IF pc = "evaluate" THEN calls - 1 ELSE calls)
    /\ [][calls' # calls => calls' = calls + 1 /\ pc' = "evaluate"]_vars
    /\ [][loss' # loss =>
            /\ pc = "evaluate"
            /\ loss' = Append(loss, Loss(state.weights))
            /\ state' = state]_vars
    /\ (pc = "main") ~> (pc \in {"done", "failed"})

C20_Witness ==
    /\ pc = "done"
    /\ ROUNDS = 2
    /\ calls = 2
    /\ Len(loss) = 2
    /\ loss[1] # loss[2]
    /\ loss[2] = Loss(state.weights)

====
